---- MODULE Spec2Model ----
(***************************************************************************)
(* The medium store of the wolfgang server (src/src/database/mediums.rs):  *)
(* the tables mediums, track_sets, tracks and recordings, the              *)
(* transactional replace update_medium, the reads get_medium and           *)
(* get_medium_data, and delete_medium.                                     *)
(*                                                                         *)
(* Text is a sequence of one-character strings, so that the work_parts     *)
(* column is written and read back character by character.  Option<T> is   *)
(* a sequence of length 0 (None) or 1 (Some).                              *)
(***************************************************************************)
EXTENDS Integers, Sequences, FiniteSets, TLC

VARIABLES mediums, track_sets, tracks, recordings, last, ret, stored,
          txn, reader, history,
          captchas, mutex, client, solved, solved_ever

vars == <<mediums, track_sets, tracks, recordings, last, ret, stored,
          txn, reader, history,
          captchas, mutex, client, solved, solved_ever>>

(***************************************************************************)
(* Bounds of the model.                                                    *)
(***************************************************************************)
\* rand::random() draws the id of a track set row or of a track row in
\* 1..MaxRowId.
MaxRowId == 2

RowIds == 1..MaxRowId

\* The longest text of a stored work_parts column that is read back.
MaxLen == 3

\* The longest work-part list of a track that is written.
MaxParts == 2

MediumIds == {"m1", "m2"}

RecordingIds == {"r1", "r2"}

None == <<>>

Some(x) == <<x>>

(***************************************************************************)
(* users table (schema.rs) and the capability checks of User.              *)
(***************************************************************************)
User(name, editor, banned) == [username |-> name, is_editor |-> editor, is_banned |-> banned]

Users == {User("alice", FALSE, FALSE), User("ed", TRUE, FALSE), User("eve", FALSE, TRUE)}

may_create(user) == ~user.is_banned

may_edit(user, creator) == ~user.is_banned /\ (user.username = creator \/ user.is_editor)

may_delete(user) == ~user.is_banned /\ user.is_editor

UserNamed(name) == CHOOSE user \in Users : user.username = name

(***************************************************************************)
(* Text: to_string, join, split, parse.                                    *)
(***************************************************************************)
DigitChars == <<"0", "1", "2", "3", "4", "5", "6", "7", "8", "9">>

RECURSIVE to_string(_)
to_string(n) ==
    IF n < 10 THEN <<DigitChars[n + 1]>>
    ELSE to_string(n \div 10) \o <<DigitChars[(n % 10) + 1]>>

RECURSIVE join(_, _)
join(strs, sep) ==
    IF Len(strs) = 0 THEN <<>>
    ELSE IF Len(strs) = 1 THEN strs[1]
    ELSE strs[1] \o sep \o join(Tail(strs), sep)

\* str::split(c): the pieces between the separators; "" gives one empty piece.
RECURSIVE split(_, _)
split(text, c) ==
    IF \A k \in 1..Len(text) : text[k] # c THEN <<text>>
    ELSE LET k == CHOOSE k \in 1..Len(text) :
                      text[k] = c /\ \A h \in 1..(k - 1) : text[h] # c
         IN <<SubSeq(text, 1, k - 1)>> \o split(SubSeq(text, k + 1, Len(text)), c)

DigitValue(ch) == (CHOOSE d \in 1..10 : DigitChars[d] = ch) - 1

IsDigit(ch) == \E d \in 1..10 : DigitChars[d] = ch

RECURSIVE DigitsValue(_)
DigitsValue(s) ==
    IF Len(s) = 0 THEN 0
    ELSE 10 * DigitsValue(SubSeq(s, 1, Len(s) - 1)) + DigitValue(s[Len(s)])

\* str::parse::<usize>: an optional '+', then one or more digits.
parse(s) ==
    LET digits == IF Len(s) > 0 /\ s[1] = "+" THEN Tail(s) ELSE s
    IN IF Len(digits) = 0 \/ \E k \in 1..Len(digits) : ~IsDigit(digits[k])
       THEN [ok |-> FALSE, val |-> 0]
       ELSE [ok |-> TRUE, val |-> DigitsValue(digits)]

\* update_medium, lines 136-141
encode_work_parts(work_parts) ==
    join([k \in 1..Len(work_parts) |-> to_string(work_parts[k])], <<",">>)

\* A decoder that drops the pieces that are no numbers.
decode_work_parts_lenient(text) ==
    LET pieces == split(text, ",")
        good == SelectSeq(pieces, LAMBDA piece : parse(piece).ok)
    IN [ok |-> TRUE, val |-> [k \in 1..Len(good) |-> parse(good[k]).val]]

\* get_track_set_from_row, lines 257-261
decode_work_parts(text) ==
    LET pieces == split(text, ",")
        parsed == [k \in 1..Len(pieces) |-> parse(pieces[k])]
    IN IF \E k \in 1..Len(parsed) : ~parsed[k].ok
       THEN [ok |-> FALSE, val |-> <<>>]
       ELSE [ok |-> TRUE, val |-> [k \in 1..Len(parsed) |-> parsed[k].val]]

(***************************************************************************)
(* The database: four tables, each a set of rows.  The primary keys are    *)
(* those of schema.rs (mediums (id), track_sets (id), tracks (id),         *)
(* recordings (id)); the foreign keys are its joinable! lines.             *)
(*                                                                         *)
(* A write returns the set of its possible results [ok, err, db]: the      *)
(* random row ids and the failures of the storage layer are choices.       *)
(***************************************************************************)
Database(m, ts, t, r) == [mediums |-> m, track_sets |-> ts, tracks |-> t, recordings |-> r]

Db == Database(mediums, track_sets, tracks, recordings)

Ok(db) == [ok |-> TRUE, err |-> "", db |-> db]

Err(e, db) == [ok |-> FALSE, err |-> e, db |-> db]

\* A statement followed by `?`: it has its result, or the storage layer fails
\* it for a reason of its own (a lost connection, a constraint of a table
\* that is not modelled) and the database is as the statement found it.
Stmt(db, r) == {r, Err("StorageError", db)}

MediumRow(id, name, discid, created_by) ==
    [id |-> id, name |-> name, discid |-> discid, created_by |-> created_by]

TrackSetRow(id, medium, index, recording) ==
    [id |-> id, medium |-> medium, index |-> index, recording |-> recording]

TrackRow(id, track_set, index, work_parts) ==
    [id |-> id, track_set |-> track_set, index |-> index, work_parts |-> work_parts]

\* diesel::insert_into(mediums::table): the primary key mediums (id).
insert_into_mediums(db, row) ==
    IF \E r \in db.mediums : r.id = row.id
    THEN Err("StorageError", db)
    ELSE Ok([db EXCEPT !.mediums = @ \cup {row}])

\* The insert into a table that has no primary key.
insert_into_track_sets_unchecked(db, row) ==
    IF \/ ~\E m \in db.mediums : m.id = row.medium
       \/ ~\E r \in db.recordings : r.id = row.recording
    THEN Err("StorageError", db)
    ELSE Ok([db EXCEPT !.track_sets = @ \cup {row}])

\* diesel::insert_into(track_sets::table): primary key, and the references
\* track_sets -> mediums (medium) and track_sets -> recordings (recording).
insert_into_track_sets(db, row) ==
    IF \/ \E r \in db.track_sets : r.id = row.id
       \/ ~\E m \in db.mediums : m.id = row.medium
       \/ ~\E r \in db.recordings : r.id = row.recording
    THEN Err("StorageError", db)
    ELSE Ok([db EXCEPT !.track_sets = @ \cup {row}])

\* diesel::insert_into(tracks::table): primary key, and tracks -> track_sets.
insert_into_tracks(db, row) ==
    IF \/ \E r \in db.tracks : r.id = row.id
       \/ ~\E s \in db.track_sets : s.id = row.track_set
    THEN Err("StorageError", db)
    ELSE Ok([db EXCEPT !.tracks = @ \cup {row}])

\* The rows that go with a deleted medium row: its track sets and their tracks.
cascade(db, id) ==
    LET gone == {s \in db.track_sets : s.medium = id}
    IN [db EXCEPT !.track_sets = @ \ gone,
                  !.tracks = {t \in @ : ~\E s \in gone : s.id = t.track_set}]

\* The delete with the track sets and tracks of the medium left behind.
delete_from_mediums_without_cascade(db, id) ==
    IF \E m \in db.mediums : m.id = id
    THEN Stmt(db, Ok([db EXCEPT !.mediums = {m \in @ : m.id # id}]))
    ELSE {Ok(db)}

\* diesel::delete(mediums::table).filter(mediums::id.eq(id)): the row, if there
\* is one, goes with its track sets and tracks, unless a table outside the
\* recording data still refers to it; without a row nothing is deleted.
delete_from_mediums(db, id) ==
    IF \E m \in db.mediums : m.id = id
    THEN Stmt(db, Ok(cascade([db EXCEPT !.mediums = {m \in @ : m.id # id}], id)))
    ELSE {Ok(db)}

(***************************************************************************)
(* The Recording collaborator.                                             *)
(***************************************************************************)
Recording(id, comment) == [id |-> id, comment |-> comment]

RecordingRow(recording, created_by) ==
    [id |-> recording.id, comment |-> recording.comment, created_by |-> created_by]

get_recording(db, id) ==
    IF \E r \in db.recordings : r.id = id
    THEN Some(LET r == CHOOSE r \in db.recordings : r.id = id IN Recording(r.id, r.comment))
    ELSE None

write_recording(db, recording, user) ==
    LET old == {r \in db.recordings : r.id = recording.id}
        allowed == IF old # {}
                   THEN may_edit(user, (CHOOSE r \in old : TRUE).created_by)
                   ELSE may_create(user)
    IN IF allowed
       THEN Ok([db EXCEPT !.recordings =
                    (@ \ old) \cup {RecordingRow(recording, user.username)}])
       ELSE Err("Forbidden", db)

update_recording(db, recording, user) ==
    LET r == write_recording(db, recording, user)
    IN IF r.ok THEN Stmt(db, r) ELSE {r}

(***************************************************************************)
(* update_medium                                                           *)
(***************************************************************************)
\* Each result that is Ok goes on with `next`; a failure is returned as it is.
Then(results, next(_)) ==
    UNION {IF r.ok THEN next(r.db) ELSE {r} : r \in results}

\* get_medium_row, lines 210-216
get_medium_row(db, id) ==
    IF \E m \in db.mediums : m.id = id
    THEN Some(CHOOSE m \in db.mediums : m.id = id)
    ELSE None

\* lines 143-152: the row of track j of a track set, with a random id.
add_track_row(db, track, track_set_id, j) ==
    UNION {Stmt(db, insert_into_tracks(db,
               TrackRow(id, track_set_id, j - 1, encode_work_parts(track.work_parts)))) :
           id \in RowIds}

\* lines 135-153: the tracks of a track set, from track j on.
RECURSIVE add_tracks(_, _, _, _)
add_tracks(db, track_list, track_set_id, j) ==
    IF j > Len(track_list) THEN {Ok(db)}
    ELSE LET rest(d) == add_tracks(d, track_list, track_set_id, j + 1)
         IN Then(add_track_row(db, track_list[j], track_set_id, j), rest)

\* The recording of a track set handed to the collaborator in every case.
add_recording_always(db, recording, user) == update_recording(db, recording, user)

\* lines 114-116: add the associated recording, if it doesn't exist.
add_recording(db, recording, user) ==
    IF get_recording(db, recording.id) = None
    THEN update_recording(db, recording, user)
    ELSE {Ok(db)}

\* lines 120-153: track set i with a random id, then its tracks.
add_track_set(db, medium, i) ==
    UNION {LET tracks_of(d) == add_tracks(d, medium.tracks[i].tracks, track_set_id, 1)
           IN Then(Stmt(db, insert_into_track_sets(db,
                       TrackSetRow(track_set_id, medium.id, i - 1,
                                   medium.tracks[i].recording.id))),
                   tracks_of) :
           track_set_id \in RowIds}

\* The track sets written with no look at their recordings: none is added,
\* and a row is stored whether or not its recording exists.
RECURSIVE add_track_sets_without_recordings(_, _, _, _)
add_track_sets_without_recordings(db, medium, user, i) ==
    IF i > Len(medium.tracks) THEN {Ok(db)}
    ELSE UNION {IF \E s \in db.track_sets : s.id = track_set_id
                THEN {Err("StorageError", db)}
                ELSE LET row == TrackSetRow(track_set_id, medium.id, i - 1,
                                            medium.tracks[i].recording.id)
                         rest(d) == add_track_sets_without_recordings(d, medium, user, i + 1)
                     IN Then(add_tracks([db EXCEPT !.track_sets = @ \cup {row}],
                                        medium.tracks[i].tracks, track_set_id, 1),
                             rest) :
                track_set_id \in RowIds}

\* lines 111-154: the track sets of the medium, from track set i on.
RECURSIVE add_track_sets(_, _, _, _)
add_track_sets(db, medium, user, i) ==
    IF i > Len(medium.tracks) THEN {Ok(db)}
    ELSE LET this(d) == add_track_set(d, medium, i)
             rest(d) == add_track_sets(d, medium, user, i + 1)
         IN Then(Then(add_recording(db, medium.tracks[i].recording, user), this), rest)

\* The check made as for a new medium, whatever row is stored.
allowed_to_update_as_new(db, id, user) == may_create(user)

\* lines 80-85
allowed_to_update(db, id, user) ==
    LET old_row == get_medium_row(db, id)
    IN IF old_row # None THEN may_edit(user, old_row[1].created_by)
       ELSE may_create(user)

\* The owner of the replaced row kept, the acting user for a new medium.
created_by_first_owner(old_row, user) ==
    IF old_row # None THEN old_row[1].created_by ELSE user.username

\* line 102: created_by: user.username.clone()
created_by(old_row, user) == user.username

\* lines 98-107
add_medium_row(db, medium, owner) ==
    Stmt(db, insert_into_mediums(db,
                 MediumRow(medium.id, medium.name, medium.discid, owner)))

\* lines 80-159: the closure run inside the transaction.
update_medium_body(db, medium, user) ==
    IF allowed_to_update(db, medium.id, user)
    THEN LET owner == created_by(get_medium_row(db, medium.id), user)
             row(d) == add_medium_row(d, medium, owner)
             sets(d) == add_track_sets(d, medium, user, 1)
         IN Then(Then(delete_from_mediums(db, medium.id), row), sets)
    ELSE {Err("Forbidden", db)}

\* A transaction that keeps what the closure did before it failed.
transaction_without_rollback(db, results) == results

\* conn.transaction, lines 79 and 160: commit on Ok, roll back on Err.
transaction(db, results) ==
    {IF r.ok THEN r ELSE Err(r.err, db) : r \in results}

\* lines 78-163
update_medium(db, medium, user) ==
    transaction(db, update_medium_body(db, medium, user))

(***************************************************************************)
(* delete_medium, lines 278-285                                            *)
(***************************************************************************)
\* A delete whose filter matches no row.
delete_medium_of_no_row(db, id, user) ==
    IF may_delete(user) THEN {Ok(db)}
    ELSE {Err("Forbidden", db)}

\* A delete that the owner of the medium may do as well.
delete_medium_by_owner(db, id, user) ==
    IF may_delete(user) \/ \E m \in db.mediums : m.id = id /\ may_edit(user, m.created_by)
    THEN delete_from_mediums(db, id)
    ELSE {Err("Forbidden", db)}

\* A delete that reports a medium it does not find.
delete_medium_of_found_row(db, id, user) ==
    IF ~may_delete(user) THEN {Err("Forbidden", db)}
    ELSE IF \E m \in db.mediums : m.id = id THEN delete_from_mediums(db, id)
    ELSE {Err("NotFound", db)}

delete_medium(db, id, user) ==
    IF may_delete(user) THEN delete_from_mediums(db, id)
    ELSE {Err("Forbidden", db)}

(***************************************************************************)
(* Reads.  A read returns [ok, err, val].                                  *)
(***************************************************************************)
Val(v) == [ok |-> TRUE, err |-> "", val |-> v]

Fail(e) == [ok |-> FALSE, err |-> e, val |-> None]

\* The rows in the order of their ids.
RECURSIVE order_by_id(_)
order_by_id(rows) ==
    IF rows = {} THEN <<>>
    ELSE LET r == CHOOSE r \in rows : \A q \in rows : r.id <= q.id
         IN <<r>> \o order_by_id(rows \ {r})

\* order_by(index): ascending; rows with equal index come in any order.
RECURSIVE order_by_index(_)
order_by_index(rows) ==
    IF rows = {} THEN <<>>
    ELSE LET r == CHOOSE r \in rows : \A q \in rows : r.index <= q.index
         IN <<r>> \o order_by_index(rows \ {r})

FirstFailure(results) ==
    results[CHOOSE k \in 1..Len(results) :
                ~results[k].ok /\ \A h \in 1..(k - 1) : results[h].ok]

AllOk(results) == \A k \in 1..Len(results) : results[k].ok

\* lines 256-268
track_from_row(track_row) ==
    LET work_parts == decode_work_parts(track_row.work_parts)
    IN IF work_parts.ok THEN Val([work_parts |-> work_parts.val])
       ELSE Fail("DecodeError")

\* lines 249-252: the track rows of a track set, by index.
load_tracks(db, track_set_id) ==
    order_by_index({t \in db.tracks : t.track_set = track_set_id})

\* lines 246-272: the track set of a recording and of loaded track rows.
track_set_from(recording, track_rows) ==
    LET results == [k \in 1..Len(track_rows) |-> track_from_row(track_rows[k])]
    IN IF recording = None THEN Fail("ReferentialError")
       ELSE IF ~AllOk(results) THEN FirstFailure(results)
       ELSE Val([recording |-> recording[1],
                 tracks |-> [k \in 1..Len(results) |-> results[k].val]])

\* lines 243-273
get_track_set_from_row(db, row) ==
    track_set_from(get_recording(db, row.recording), load_tracks(db, row.id))

\* lines 220-223: the track set rows of a medium, by index.
load_track_sets(db, id) ==
    order_by_index({s \in db.track_sets : s.medium = id})

\* lines 225-239: the medium of its row and of the track sets that were read.
medium_data_from(row, results) ==
    IF ~AllOk(results) THEN FirstFailure(results)
    ELSE Val([id |-> row.id, name |-> row.name, discid |-> row.discid,
              tracks |-> [k \in 1..Len(results) |-> results[k].val]])

\* lines 219-240
get_medium_data(db, row) ==
    LET track_set_rows == load_track_sets(db, row.id)
    IN medium_data_from(row, [k \in 1..Len(track_set_rows) |->
                                 get_track_set_from_row(db, track_set_rows[k])])

\* lines 166-173
get_medium(db, id) ==
    LET row == get_medium_row(db, id)
    IN IF row = None THEN Val(None)
       ELSE LET data == get_medium_data(db, row[1])
            IN IF data.ok THEN Val(Some(data.val)) ELSE data

\* lines 176-191: one row of the join per track set on the recording, in any
\* order; the value maps each row of the join to its medium.
get_mediums_for_recording(db, recording_id) ==
    LET rows == {s \in db.track_sets :
                     s.recording = recording_id /\ \E m \in db.mediums : m.id = s.medium}
        data == [s \in rows |->
                     get_medium_data(db, CHOOSE m \in db.mediums : m.id = s.medium)]
    IN IF \E s \in rows : ~data[s].ok
       THEN data[CHOOSE s \in rows : ~data[s].ok]
       ELSE Val([s \in rows |-> data[s].val])

\* lines 194-207: the medium rows whose discid is not NULL and equal to the
\* query, in any order; the value maps each row to its medium.
get_mediums_by_discid(db, discid) ==
    LET rows == {row \in db.mediums : row.discid # None /\ row.discid[1] = discid}
        data == [row \in rows |-> get_medium_data(db, row)]
    IN IF \E row \in rows : ~data[row].ok
       THEN data[CHOOSE row \in rows : ~data[row].ok]
       ELSE Val([row \in rows |-> data[row].val])

(***************************************************************************)
(* Requests.                                                               *)
(***************************************************************************)
Medium(id, name, discid, track_list) ==
    [id |-> id, name |-> name, discid |-> discid, tracks |-> track_list]

TrackSet(recording, track_list) == [recording |-> recording, tracks |-> track_list]

Track(work_parts) == [work_parts |-> work_parts]

\* The requests the clients of the store send: two versions of m1 (the
\* second with two track sets on one recording and a track with no work
\* part) and a second medium on another recording.
Requests ==
    { Medium("m1", "Disc 1", None,
             <<TrackSet(Recording("r1", "new"), <<Track(<<0, 12>>)>>)>>),
      Medium("m1", "Disc 2", Some("x"),
             <<TrackSet(Recording("r1", "new"), <<Track(<<>>)>>),
               TrackSet(Recording("r1", "new"), <<>>)>>),
      Medium("m2", "Disc 2", Some("x"),
             <<TrackSet(Recording("r2", "new"), <<Track(<<7>>)>>)>>) }

(***************************************************************************)
(* Clients that run at the same time: two writers, each with one call in   *)
(* a transaction of its own, and a reader.  The database runs every        *)
(* statement at read committed: the statement sees the rows committed      *)
(* when it starts and the rows its own transaction wrote.                  *)
(***************************************************************************)
Writers == {"w1", "w2"}

\* The calls of the writers: on the medium m1, and on m1 and m2 with one
\* recording, r2, that no state starts with.
ConcCalls(w) ==
    IF w = "w1"
    THEN {[op |-> "update_medium", user |-> UserNamed("alice"),
           medium |-> Medium("m1", "Disc A", None,
                             <<TrackSet(Recording("r1", "new"), <<Track(<<1>>)>>)>>)],
          [op |-> "update_medium", user |-> UserNamed("alice"),
           medium |-> Medium("m1", "Disc C", None,
                             <<TrackSet(Recording("r2", "by w1"), <<Track(<<3>>)>>)>>)]}
    ELSE {[op |-> "update_medium", user |-> UserNamed("ed"),
           medium |-> Medium("m1", "Disc B", Some("x"),
                             <<TrackSet(Recording("r2", "new"), <<Track(<<2>>)>>)>>)],
          [op |-> "update_medium", user |-> UserNamed("ed"),
           medium |-> Medium("m2", "Disc D", None,
                             <<TrackSet(Recording("r2", "by w2"), <<Track(<<4>>)>>)>>)],
          [op |-> "delete_medium", user |-> UserNamed("ed"),
           medium |-> Medium("m1", "", None, <<>>)]}

NoRows == Database({}, {}, {}, {})

\* A writer: its call, its place in the call (pc; i and j count the track
\* sets and the tracks done), the row it found, whether it deleted the
\* committed row of the medium, the ids of the committed recordings it
\* replaced, the rows it inserted, the id of the track set it is in, the
\* writer it waits for, and its outcome.
Idle ==
    [pc |-> "idle", op |-> "", user |-> UserNamed("alice"),
     medium |-> Medium("", "", None, <<>>), old |-> None, del |-> FALSE,
     gone |-> {},
     ins |-> NoRows, i |-> 1, j |-> 1, track_set_id |-> 0, wait |-> "", res |-> ""]

\* The reader: its place in get_medium, what it has read so far, its result.
Reading(id) ==
    [pc |-> "get_medium_row", id |-> id, row |-> None, sets |-> <<>>, k |-> 1,
     recording |-> None, results |-> <<>>, ret |-> Val(None)]

(***************************************************************************)
(* The captcha manager (src/src/routes/captcha.rs): a map from captcha id  *)
(* to question behind a mutex.  Each call of a client is a sequence of     *)
(* steps: lock, the work on the map, and the release of the guard at the   *)
(* end of the function.  solved and solved_ever are history variables:     *)
(* the number of check_captcha calls that returned true for an id since it *)
(* was last generated, and since the start.                                *)
(***************************************************************************)
MaxSolved == 2

Clients == {"c1", "c2"}

\* The ids that Uuid::new_v4 draws.
CaptchaIds == {"u1", "u2"}

Question(question, answer) == [question |-> question, answer |-> answer]

QUESTIONS ==
    <<Question("In welchem Jahr wurde Johannes Brahms geboren?", "1833"),
      Question("In welchem Jahr ist Johannes Brahms gestorben?", "1897")>>

\* The answers that a client sends.
Answers == {"1833", "1897"}

HashMap_new == [id \in {} |-> None]

\* HashMap::insert, get and remove.
insert(map, id, question) ==
    [k \in DOMAIN map \cup {id} |-> IF k = id THEN question ELSE map[k]]

get(map, id) == IF id \in DOMAIN map THEN Some(map[id]) ELSE None

remove(map, id) == [k \in DOMAIN map \ {id} |-> map[k]]

\* A lock that is always granted.
lock_unguarded(holder, c) == {Some(c)}

\* Mutex::lock: the outcomes of the call of client c; none while another
\* client holds the guard.
lock(holder, c) == IF holder = None THEN {Some(c)} ELSE {}

store_vars ==
    <<mediums, track_sets, tracks, recordings, last, ret, stored,
      txn, reader, history>>

\* The locals of a call.
CaptchaCall(pc, op, id, answer, question, result) ==
    [pc |-> pc, op |-> op, id |-> id, answer |-> answer,
     question |-> question, result |-> result]

CaptchaManager_new ==
    /\ captchas = HashMap_new
    /\ mutex = None

NoCalls ==
    /\ client = [c \in Clients |-> CaptchaCall("idle", "", "", "", None, FALSE)]
    /\ solved = [id \in CaptchaIds |-> 0]
    /\ solved_ever = [id \in CaptchaIds |-> 0]

\* generate_captcha up to the lock: the id and the question are drawn.
GenerateCaptcha(c) ==
    /\ client[c].pc = "idle"
    /\ \E id \in CaptchaIds : \E k \in DOMAIN QUESTIONS :
           client' = [client EXCEPT ![c] =
               CaptchaCall("lock", "generate_captcha", id, "", Some(QUESTIONS[k]), FALSE)]
    /\ UNCHANGED <<captchas, mutex, solved, solved_ever>>
    /\ UNCHANGED store_vars

\* check_captcha(id, answer) is called.
CheckCaptcha(c) ==
    /\ client[c].pc = "idle"
    /\ \E id \in CaptchaIds : \E answer \in Answers :
           /\ solved_ever[id] < MaxSolved
           /\ client' = [client EXCEPT ![c] =
                  CaptchaCall("lock", "check_captcha", id, answer, None, FALSE)]
    /\ UNCHANGED <<captchas, mutex, solved, solved_ever>>
    /\ UNCHANGED store_vars

\* self.captchas.lock()
Lock(c) ==
    /\ client[c].pc = "lock"
    /\ \E guard \in lock(mutex, c) : mutex' = guard
    /\ client' = [client EXCEPT ![c].pc =
           IF client[c].op = "generate_captcha" THEN "insert" ELSE "get"]
    /\ UNCHANGED <<captchas, solved, solved_ever>>
    /\ UNCHANGED store_vars

\* captchas.insert(id.clone(), question)
Insert(c) ==
    /\ client[c].pc = "insert"
    /\ captchas' = insert(captchas, client[c].id, client[c].question[1])
    /\ solved' = [solved EXCEPT ![client[c].id] = 0]
    /\ client' = [client EXCEPT ![c].pc = "unlock"]
    /\ UNCHANGED <<mutex, solved_ever>>
    /\ UNCHANGED store_vars

\* let question = captchas.get(id), and the else branch of the if let.
GetQuestion(c) ==
    /\ client[c].pc = "get"
    /\ LET question == get(captchas, client[c].id)
       IN client' = [client EXCEPT
              ![c].question = question,
              ![c].result = FALSE,
              ![c].pc = IF question # None THEN "remove" ELSE "unlock"]
    /\ UNCHANGED <<captchas, mutex, solved, solved_ever>>
    /\ UNCHANGED store_vars

\* The Some branch: the answer is compared and the captcha removed.
Remove(c) ==
    /\ client[c].pc = "remove"
    /\ client' = [client EXCEPT
           ![c].result = (client[c].answer = client[c].question[1].answer),
           ![c].pc = "unlock"]
    /\ captchas' = remove(captchas, client[c].id)
    /\ UNCHANGED <<mutex, solved, solved_ever>>
    /\ UNCHANGED store_vars

\* The function returns: the guard is dropped.
Unlock(c) ==
    /\ client[c].pc = "unlock"
    /\ mutex' = None
    /\ client' = [client EXCEPT ![c].pc = "idle"]
    /\ IF client[c].op = "check_captcha" /\ client[c].result
       THEN /\ solved' = [solved EXCEPT ![client[c].id] = @ + 1]
            /\ solved_ever' = [solved_ever EXCEPT ![client[c].id] = @ + 1]
       ELSE UNCHANGED <<solved, solved_ever>>
    /\ UNCHANGED captchas
    /\ UNCHANGED store_vars

(***************************************************************************)
(* The store as a state machine: one action per operation.                 *)
(***************************************************************************)
\* The last call: the operation, the medium id, the acting user, the row of
\* the medium as the call found it, and the outcome.
Call(op, id, user, old, res) ==
    [op |-> op, id |-> id, user |-> user, old |-> old, res |-> res]

Outcome(r) == IF r.ok THEN "Ok" ELSE r.err

SetDb(db) ==
    /\ mediums' = db.mediums
    /\ track_sets' = db.track_sets
    /\ tracks' = db.tracks
    /\ recordings' = db.recordings

UpdateMedium(medium, user) ==
    \E r \in update_medium(Db, medium, user) :
        /\ SetDb(r.db)
        /\ last' = Call("update_medium", medium.id, user.username,
                        get_medium_row(Db, medium.id), Outcome(r))
        /\ ret' = [ok |-> r.ok, err |-> r.err, val |-> None]
        /\ stored' = IF r.ok
                     THEN [stored EXCEPT ![medium.id] =
                               Some([medium |-> medium, by |-> user.username])]
                     ELSE stored
        /\ UNCHANGED <<txn, reader, history, captchas, mutex, client, solved, solved_ever>>

DeleteMedium(id, user) ==
    \E r \in delete_medium(Db, id, user) :
        /\ SetDb(r.db)
        /\ last' = Call("delete_medium", id, user.username,
                        get_medium_row(Db, id), Outcome(r))
        /\ ret' = [ok |-> r.ok, err |-> r.err, val |-> None]
        /\ stored' = IF r.ok THEN [stored EXCEPT ![id] = None] ELSE stored
        /\ UNCHANGED <<txn, reader, history, captchas, mutex, client, solved, solved_ever>>

GetMedium(id) ==
    LET r == get_medium(Db, id)
    IN /\ last' = Call("get_medium", id, "", get_medium_row(Db, id), Outcome(r))
       /\ ret' = r
       /\ UNCHANGED <<mediums, track_sets, tracks, recordings, stored>>
       /\ UNCHANGED <<txn, reader, history, captchas, mutex, client, solved, solved_ever>>

Init ==
    /\ CaptchaManager_new
    /\ NoCalls
    /\ mediums = {}
    /\ track_sets = {}
    /\ tracks = {}
    /\ recordings \in {{}, {RecordingRow(Recording("r1", "old"), "ed")}}
    /\ last = Call("init", "", "", None, "Ok")
    /\ ret = Val(None)
    /\ stored = [id \in MediumIds |-> None]
    /\ txn = [w \in Writers |-> Idle]
    /\ reader = Reading("m1")
    /\ history = <<>>

Update ==
    /\ \E medium \in Requests, user \in Users : UpdateMedium(medium, user)

Delete ==
    /\ \E id \in MediumIds, user \in Users : DeleteMedium(id, user)

Get ==
    /\ \E id \in MediumIds : GetMedium(id)

Next == Update \/ Delete \/ Get

Spec == Init /\ [][Next]_vars

(***************************************************************************)
(* The calls run at the same time, one statement a step.                   *)
(***************************************************************************)
InProgress(w) == txn[w].pc \notin {"idle", "committed", "aborted"}

\* The committed rows without those the transaction of w deleted.
Base(w) ==
    LET kept == [Db EXCEPT !.recordings = {r \in @ : r.id \notin txn[w].gone}]
    IN IF txn[w].del
       THEN cascade([kept EXCEPT !.mediums = {m \in @ : m.id # txn[w].medium.id}],
                    txn[w].medium.id)
       ELSE kept

\* What a statement of w sees: the committed rows and its own changes.
View(w) ==
    LET b == Base(w)
        n == txn[w].ins
    IN Database(b.mediums \cup n.mediums, b.track_sets \cup n.track_sets,
                b.tracks \cup n.tracks, b.recordings \cup n.recordings)

\* The rows of db that w wrote itself.
Written(w, db) ==
    LET b == Base(w)
    IN Database(db.mediums \ b.mediums, db.track_sets \ b.track_sets,
                db.tracks \ b.tracks, db.recordings \ b.recordings)

\* A transaction in progress has inserted or deleted a row with the key.
Holds(o, table, id) ==
    /\ InProgress(o)
    /\ \E r \in txn[o].ins[table] \cup (Db[table] \ Base(o)[table]) : r.id = id

\* A statement of w on the key waits for the end of another transaction.
Holder(w, table, id) == {o \in Writers \ {w} : Holds(o, table, id)}

\* The record of a commit: who committed and what get_medium returns then.
Committed(w, db, id) == [by |-> w, val |-> get_medium(db, id)]

Step(w, pc) == txn' = [txn EXCEPT ![w].pc = pc]

\* An Err leaves the closure: the transaction is rolled back.
Rollback(w, err) ==
    /\ txn' = [txn EXCEPT ![w].pc = "aborted", ![w].res = err]
    /\ UNCHANGED <<mediums, track_sets, tracks, recordings, history>>

\* A statement of the transaction that wrote: db is what w sees after it.
Wrote(w, db, pc) ==
    /\ txn' = [txn EXCEPT ![w].pc = pc, ![w].ins = Written(w, db)]
    /\ UNCHANGED <<mediums, track_sets, tracks, recordings, history>>

\* The call arrives; update_medium opens its transaction (line 79),
\* delete_medium checks may_delete (line 279).
Begin(w) ==
    /\ txn[w].pc = "idle"
    /\ UNCHANGED <<reader, last, ret, stored, captchas, mutex, client, solved, solved_ever>>
    /\ \E call \in ConcCalls(w) :
           LET t == [Idle EXCEPT !.op = call.op, !.user = call.user,
                                 !.medium = call.medium]
           IN IF call.op = "update_medium"
              THEN txn' = [txn EXCEPT ![w] = [t EXCEPT !.pc = "get_medium_row"]]
              ELSE IF may_delete(call.user)
              THEN txn' = [txn EXCEPT ![w] = [t EXCEPT !.pc = "delete"]]
              ELSE txn' = [txn EXCEPT ![w] = [t EXCEPT !.pc = "aborted",
                                                       !.res = "Forbidden"]]
    /\ UNCHANGED <<mediums, track_sets, tracks, recordings, history>>

\* lines 80-85 and 157-159: the row of the medium and the check of the user.
SelectRow(w) ==
    /\ txn[w].pc = "get_medium_row"
    /\ UNCHANGED <<reader, last, ret, stored, captchas, mutex, client, solved, solved_ever>>
    /\ IF allowed_to_update(View(w), txn[w].medium.id, txn[w].user)
       THEN /\ txn' = [txn EXCEPT ![w].pc = "delete",
                                  ![w].old = get_medium_row(View(w), txn[w].medium.id)]
            /\ UNCHANGED <<mediums, track_sets, tracks, recordings, history>>
       ELSE Rollback(w, "Forbidden")

\* The delete has its rows: inside the transaction of update_medium they are
\* gone for w until it commits; delete_medium commits at once.
Deleted(w, found) ==
    IF txn[w].op = "update_medium"
    THEN /\ txn' = [txn EXCEPT ![w].pc = "insert_medium", ![w].del = found,
                               ![w].wait = ""]
         /\ UNCHANGED <<mediums, track_sets, tracks, recordings, history>>
    ELSE LET id == txn[w].medium.id
             db == IF found
                   THEN cascade([Db EXCEPT !.mediums = {m \in @ : m.id # id}], id)
                   ELSE Db
         IN /\ SetDb(db)
            /\ txn' = [txn EXCEPT ![w].pc = "committed", ![w].res = "Ok",
                                  ![w].wait = ""]
            /\ history' = Append(history, Committed(w, db, id))

\* lines 92-94 and 280-281: the delete finds the rows committed when it
\* starts; a row that another transaction has deleted makes it wait.
DeleteRow(w) ==
    /\ txn[w].pc = "delete"
    /\ UNCHANGED <<reader, last, ret, stored, captchas, mutex, client, solved, solved_ever>>
    /\ LET id == txn[w].medium.id
       IN IF ~\E m \in mediums : m.id = id THEN Deleted(w, FALSE)
          ELSE IF Holder(w, "mediums", id) # {}
          THEN /\ txn' = [txn EXCEPT ![w].pc = "delete_wait",
                              ![w].wait = CHOOSE o \in Holder(w, "mediums", id) : TRUE]
               /\ UNCHANGED <<mediums, track_sets, tracks, recordings, history>>
          ELSE Deleted(w, TRUE)

\* The transaction waited for has ended: when it committed, the row that the
\* delete had found is gone and the delete has no row (a row inserted since
\* the statement began is not one it found); when it was rolled back, the
\* row is there and is deleted.
DeleteResume(w) ==
    /\ txn[w].pc = "delete_wait"
    /\ UNCHANGED <<reader, last, ret, stored, captchas, mutex, client, solved, solved_ever>>
    /\ ~InProgress(txn[w].wait)
    /\ Deleted(w, /\ txn[txn[w].wait].pc = "aborted"
                  /\ \E m \in mediums : m.id = txn[w].medium.id)

\* lines 98-107: the medium row; the primary key is checked against the rows
\* of every transaction, and one in progress that holds the key is waited for.
InsertMedium(w) ==
    /\ txn[w].pc = "insert_medium"
    /\ UNCHANGED <<reader, last, ret, stored, captchas, mutex, client, solved, solved_ever>>
    /\ Holder(w, "mediums", txn[w].medium.id) = {}
    /\ LET medium == txn[w].medium
           row == MediumRow(medium.id, medium.name, medium.discid,
                            created_by(txn[w].old, txn[w].user))
           r == insert_into_mediums(View(w), row)
       IN IF ~r.ok THEN Rollback(w, r.err)
          ELSE IF txn[w].i > Len(medium.tracks) THEN Wrote(w, r.db, "commit")
          ELSE Wrote(w, r.db, "recording")

\* line 114: the recording of track set i is looked up; the lookup sees the
\* committed rows and waits for nothing.
GetRecording(w) ==
    /\ txn[w].pc = "recording"
    /\ UNCHANGED <<reader, last, ret, stored, captchas, mutex, client, solved, solved_ever>>
    /\ UNCHANGED <<mediums, track_sets, tracks, recordings, history>>
    /\ LET recording == txn[w].medium.tracks[txn[w].i].recording
       IN IF get_recording(View(w), recording.id) # None
          THEN Step(w, "track_set")
          ELSE Step(w, "update_recording")

\* line 115: the recording that was not found is added; the write waits for
\* a transaction in progress that holds the key, and then finds what that
\* transaction committed.
UpdateRecording(w) ==
    /\ txn[w].pc = "update_recording"
    /\ UNCHANGED <<reader, last, ret, stored, captchas, mutex, client, solved, solved_ever>>
    /\ LET recording == txn[w].medium.tracks[txn[w].i].recording
           r == write_recording(View(w), recording, txn[w].user)
       IN /\ Holder(w, "recordings", recording.id) = {}
          /\ IF ~r.ok THEN Rollback(w, r.err)
             ELSE /\ txn' = [txn EXCEPT
                         ![w].pc = "track_set",
                         ![w].gone = @ \cup {old.id : old \in Base(w).recordings
                                                          \ r.db.recordings},
                         ![w].ins = Written(w, r.db)]
                  /\ UNCHANGED <<mediums, track_sets, tracks, recordings, history>>

\* lines 120-131: the row of track set i with a random id.
InsertTrackSet(w) ==
    /\ txn[w].pc = "track_set"
    /\ UNCHANGED <<reader, last, ret, stored, captchas, mutex, client, solved, solved_ever>>
    /\ \E track_set_id \in RowIds :
           /\ Holder(w, "track_sets", track_set_id) = {}
           /\ LET medium == txn[w].medium
                  r == insert_into_track_sets(View(w),
                           TrackSetRow(track_set_id, medium.id, txn[w].i - 1,
                                       medium.tracks[txn[w].i].recording.id))
                  more == Len(medium.tracks[txn[w].i].tracks) > 0
                  last_set == txn[w].i = Len(medium.tracks)
              IN IF ~r.ok THEN Rollback(w, r.err)
                 ELSE /\ txn' = [txn EXCEPT
                             ![w].ins = Written(w, r.db),
                             ![w].track_set_id = track_set_id,
                             ![w].j = 1,
                             ![w].i = IF more THEN @ ELSE @ + 1,
                             ![w].pc = IF more THEN "track"
                                       ELSE IF last_set THEN "commit"
                                       ELSE "recording"]
                      /\ UNCHANGED <<mediums, track_sets, tracks, recordings, history>>

\* lines 135-153: the row of track j of track set i with a random id.
InsertTrack(w) ==
    /\ txn[w].pc = "track"
    /\ UNCHANGED <<reader, last, ret, stored, captchas, mutex, client, solved, solved_ever>>
    /\ \E id \in RowIds :
           /\ Holder(w, "tracks", id) = {}
           /\ LET medium == txn[w].medium
                  track_list == medium.tracks[txn[w].i].tracks
                  r == insert_into_tracks(View(w),
                           TrackRow(id, txn[w].track_set_id, txn[w].j - 1,
                                    encode_work_parts(track_list[txn[w].j].work_parts)))
                  more == txn[w].j < Len(track_list)
                  last_set == txn[w].i = Len(medium.tracks)
              IN IF ~r.ok THEN Rollback(w, r.err)
                 ELSE /\ txn' = [txn EXCEPT
                             ![w].ins = Written(w, r.db),
                             ![w].j = IF more THEN @ + 1 ELSE 1,
                             ![w].i = IF more THEN @ ELSE @ + 1,
                             ![w].pc = IF more THEN "track"
                                       ELSE IF last_set THEN "commit"
                                       ELSE "recording"]
                      /\ UNCHANGED <<mediums, track_sets, tracks, recordings, history>>

\* lines 156 and 160: Ok(()) leaves the closure and the transaction commits.
Commit(w) ==
    /\ txn[w].pc = "commit"
    /\ UNCHANGED <<reader, last, ret, stored, captchas, mutex, client, solved, solved_ever>>
    /\ SetDb(View(w))
    /\ txn' = [txn EXCEPT ![w].pc = "committed", ![w].res = "Ok"]
    /\ history' = Append(history, Committed(w, View(w), txn[w].medium.id))

Returned(r) == reader' = [reader EXCEPT !.pc = "done", !.ret = r]

\* lines 167 and 210-216: the reader loads the row of the medium.
ReadRow ==
    /\ reader.pc = "get_medium_row"
    /\ UNCHANGED <<mediums, track_sets, tracks, recordings, txn, history>>
    /\ UNCHANGED <<last, ret, stored, captchas, mutex, client, solved, solved_ever>>
    /\ LET row == get_medium_row(Db, reader.id)
       IN IF row = None THEN Returned(Val(None))
          ELSE reader' = [reader EXCEPT !.pc = "track_sets", !.row = row]

\* lines 220-223: the track set rows, a statement of its own.
ReadTrackSets ==
    /\ reader.pc = "track_sets"
    /\ UNCHANGED <<mediums, track_sets, tracks, recordings, txn, history>>
    /\ UNCHANGED <<last, ret, stored, captchas, mutex, client, solved, solved_ever>>
    /\ LET sets == load_track_sets(Db, reader.id)
       IN IF sets = <<>>
          THEN Returned(Val(Some(medium_data_from(reader.row[1], <<>>).val)))
          ELSE reader' = [reader EXCEPT !.pc = "recording", !.sets = sets]

\* lines 246-247: the recording of track set k.
ReadRecording ==
    /\ reader.pc = "recording"
    /\ UNCHANGED <<mediums, track_sets, tracks, recordings, txn, history>>
    /\ UNCHANGED <<last, ret, stored, captchas, mutex, client, solved, solved_ever>>
    /\ LET recording == get_recording(Db, reader.sets[reader.k].recording)
       IN IF recording = None THEN Returned(Fail("ReferentialError"))
          ELSE reader' = [reader EXCEPT !.pc = "tracks", !.recording = recording]

\* lines 249-272 and 225-239: the tracks of track set k; after the last
\* track set the medium is returned.
ReadTracks ==
    /\ reader.pc = "tracks"
    /\ UNCHANGED <<mediums, track_sets, tracks, recordings, txn, history>>
    /\ UNCHANGED <<last, ret, stored, captchas, mutex, client, solved, solved_ever>>
    /\ LET r == track_set_from(reader.recording,
                               load_tracks(Db, reader.sets[reader.k].id))
           results == Append(reader.results, r)
       IN IF ~r.ok THEN Returned(r)
          ELSE IF reader.k = Len(reader.sets)
          THEN Returned(Val(Some(medium_data_from(reader.row[1], results).val)))
          ELSE reader' = [reader EXCEPT !.pc = "recording", !.k = @ + 1,
                                        !.results = results]

\* The medium m1 as it is stored before the writers come.
Disc0 ==
    Database({MediumRow("m1", "Disc 0", None, "alice")},
             {TrackSetRow(1, "m1", 0, "r1")},
             {TrackRow(1, 1, 0, encode_work_parts(<<0>>))},
             {RecordingRow(Recording("r1", "old"), "ed")})

InitConc ==
    /\ CaptchaManager_new
    /\ NoCalls
    /\ \E db \in {Disc0, [Disc0 EXCEPT !.mediums = {}, !.track_sets = {}, !.tracks = {}]} :
           /\ mediums = db.mediums
           /\ track_sets = db.track_sets
           /\ tracks = db.tracks
           /\ recordings = db.recordings
           /\ history = <<[by |-> "", val |-> get_medium(db, "m1")]>>
    /\ txn = [w \in Writers |-> Idle]
    /\ reader = Reading("m1")
    /\ last = Call("init", "", "", None, "Ok")
    /\ ret = Val(None)
    /\ stored = [id \in MediumIds |-> None]

NextConc ==
    \/ \E w \in Writers : Begin(w)
    \/ \E w \in Writers : SelectRow(w)
    \/ \E w \in Writers : DeleteRow(w)
    \/ \E w \in Writers : DeleteResume(w)
    \/ \E w \in Writers : InsertMedium(w)
    \/ \E w \in Writers : GetRecording(w)
    \/ \E w \in Writers : UpdateRecording(w)
    \/ \E w \in Writers : InsertTrackSet(w)
    \/ \E w \in Writers : InsertTrack(w)
    \/ \E w \in Writers : Commit(w)
    \/ ReadRow
    \/ ReadTrackSets
    \/ ReadRecording
    \/ ReadTracks

SpecConc == InitConc /\ [][NextConc]_vars

(***************************************************************************)
(* The work_parts column: m1 is stored with one track whose work_parts is  *)
(* any short text, as whoever wrote the row left it; the medium is read,   *)
(* and written again with a list of work parts for its first track.        *)
(***************************************************************************)
Alphabet == {"0", "7", ",", "+", "-", " ", "a"}

Texts == UNION {[1..n -> Alphabet] : n \in 0..MaxLen}

PartValues == {0, 7, 12}

PartLists == UNION {[1..n -> PartValues] : n \in 0..MaxParts}

\* The medium that is written: a track with the work parts, a second track,
\* and a second track set.
CodecMedium(work_parts) ==
    Medium("m1", "Disc 1", None,
           <<TrackSet(Recording("r1", "new"), <<Track(work_parts), Track(<<7>>)>>),
             TrackSet(Recording("r2", "new"), <<>>)>>)

InitCodec ==
    /\ CaptchaManager_new
    /\ NoCalls
    /\ mediums = {MediumRow("m1", "Disc 1", None, "alice")}
    /\ track_sets = {TrackSetRow(1, "m1", 0, "r1")}
    /\ \E text \in Texts : tracks = {TrackRow(1, 1, 0, text)}
    /\ recordings = {RecordingRow(Recording("r1", "old"), "ed")}
    /\ last = Call("init", "", "", None, "Ok")
    /\ ret = Val(None)
    /\ stored = [id \in MediumIds |-> None]
    /\ txn = [w \in Writers |-> Idle]
    /\ reader = Reading("m1")
    /\ history = <<>>

UpdateCodec ==
    /\ \E work_parts \in PartLists :
           UpdateMedium(CodecMedium(work_parts), UserNamed("alice"))

NextCodec == UpdateCodec \/ Get

SpecCodec == InitCodec /\ [][NextCodec]_vars

(***************************************************************************)
(* The captcha manager with two clients whose calls interleave.            *)
(***************************************************************************)
InitCaptcha ==
    /\ Init
    /\ recordings = {}

NextCaptcha ==
    \/ \E c \in Clients : GenerateCaptcha(c)
    \/ \E c \in Clients : CheckCaptcha(c)
    \/ \E c \in Clients : Lock(c)
    \/ \E c \in Clients : Insert(c)
    \/ \E c \in Clients : GetQuestion(c)
    \/ \E c \in Clients : Remove(c)
    \/ \E c \in Clients : Unlock(c)

SpecCaptcha == InitCaptcha /\ [][NextCaptcha]_vars

(***************************************************************************)
(* Properties of the store.                                                *)
(***************************************************************************)
Tables == <<mediums, track_sets, tracks, recordings>>

UpdateDone(res) == last.op = "update_medium" /\ last.res = res

\* C1: update_medium is all-or-nothing: a call that fails at any step
\* (authorization, the creation of a missing recording, the insertion of the
\* medium row, of a track set row or of a track row) leaves the four tables
\* as they were before the call.
C1_AllOrNothing ==
    [][(last'.op = "update_medium" /\ last'.res # "Ok") => UNCHANGED Tables]_vars

\* A failed update of a medium that is stored with its track sets and tracks.
C1_Witness ==
    /\ UpdateDone("StorageError")
    /\ last.old # None
    /\ \E s \in track_sets : s.medium = last.id /\ \E t \in tracks : t.track_set = s.id

\* The acting user may edit the owner of every stored row with the id, or may
\* create when there is none.
MayUpdate(rows, user) ==
    IF rows = {} THEN may_create(user)
    ELSE \A m \in rows : may_edit(user, m.created_by)

\* C2: update_medium is gated against the stored state: a call by a user who
\* may not edit the owner stored in the row of the medium, or who may not
\* create when there is no row, returns Forbidden, and get_medium returns
\* what it returned before the call.
C2_AuthorizationGate ==
    [][(/\ last'.op = "update_medium"
        /\ ~MayUpdate({m \in mediums : m.id = last'.id}, UserNamed(last'.user)))
       => /\ last'.res = "Forbidden"
          /\ get_medium(Db', last'.id) = get_medium(Db, last'.id)]_vars

\* alice is refused the medium that ed owns.
C2_Witness ==
    /\ UpdateDone("Forbidden")
    /\ last.user = "alice"
    /\ \E m \in mediums : m.id = last.id /\ m.created_by = "ed"

\* The medium that get_medium returns has the name, the disc id, the track
\* sets (by recording id) and the tracks (by work parts) of the request, in
\* order.
SameAggregate(got, medium) ==
    /\ got.id = medium.id
    /\ got.name = medium.name
    /\ got.discid = medium.discid
    /\ Len(got.tracks) = Len(medium.tracks)
    /\ \A i \in 1..Len(medium.tracks) :
           /\ got.tracks[i].recording.id = medium.tracks[i].recording.id
           /\ Len(got.tracks[i].tracks) = Len(medium.tracks[i].tracks)
           /\ \A j \in 1..Len(medium.tracks[i].tracks) :
                  got.tracks[i].tracks[j].work_parts =
                      medium.tracks[i].tracks[j].work_parts

\* C3: round trip: after a successful update_medium, get_medium on the same
\* id returns the medium of the request.
C3_RoundTrip ==
    UpdateDone("Ok") =>
        LET got == get_medium(Db, last.id)
        IN /\ got.ok
           /\ got.val # None
           /\ SameAggregate(got.val[1], stored[last.id][1].medium)

\* The rows stored for a medium id are the rows of one request, no more.
ExactlyRowsOf(medium, owner) ==
    LET sets == {s \in track_sets : s.medium = medium.id}
    IN /\ {m \in mediums : m.id = medium.id} =
              {MediumRow(medium.id, medium.name, medium.discid, owner)}
       /\ Cardinality(sets) = Len(medium.tracks)
       /\ \A i \in 1..Len(medium.tracks) :
              \E s \in sets :
                  /\ s.index = i - 1
                  /\ s.recording = medium.tracks[i].recording.id
                  /\ Cardinality({t \in tracks : t.track_set = s.id}) =
                         Len(medium.tracks[i].tracks)
                  /\ \A j \in 1..Len(medium.tracks[i].tracks) :
                         \E t \in tracks :
                             /\ t.track_set = s.id
                             /\ t.index = j - 1
                             /\ t.work_parts =
                                    encode_work_parts(medium.tracks[i].tracks[j].work_parts)

\* Every track set row has its medium row, every track row its track set row.
NoResidue ==
    /\ \A s \in track_sets : \E m \in mediums : m.id = s.medium
    /\ \A t \in tracks : \E s \in track_sets : s.id = t.track_set

\* C4: replace semantics: after a successful update_medium of a medium that
\* was stored, the stored rows of the id are one medium row and the track
\* set and track rows of this call, and no row of the earlier call remains.
C4_ReplaceSemantics ==
    (UpdateDone("Ok") /\ last.old # None) =>
        /\ ExactlyRowsOf(stored[last.id][1].medium, last.user)
        /\ NoResidue

\* m1 stored under another name is replaced.
C4_Witness ==
    /\ UpdateDone("Ok")
    /\ last.old # None
    /\ last.old[1].name # stored[last.id][1].medium.name
    /\ \E s \in track_sets : s.medium = last.id

\* C7: cascade on delete: after a successful delete_medium, get_medium finds
\* no medium, no track set row refers to the medium and no track row to one
\* of its former track sets, get_mediums_for_recording returns it for no
\* recording, and the recordings are as before.
C7_CascadeOnDelete ==
    [][(last'.op = "delete_medium" /\ last'.res = "Ok")
       => /\ get_medium(Db', last'.id) = Val(None)
          /\ ~\E s \in track_sets' : s.medium = last'.id
          /\ \A s \in track_sets :
                 s.medium = last'.id => ~\E t \in tracks' : t.track_set = s.id
          /\ \A recording_id \in RecordingIds :
                 LET got == get_mediums_for_recording(Db', recording_id)
                 IN got.ok => \A s \in DOMAIN got.val : got.val[s].id # last'.id
          /\ recordings' = recordings]_vars

\* A medium with a track set and a track was deleted, its recording is kept.
C7_Witness ==
    /\ last.op = "delete_medium"
    /\ last.res = "Ok"
    /\ last.old # None
    /\ recordings # {}
    /\ tracks # {}

\* C8: delete_medium is gated by may_delete alone: with it the call is never
\* Forbidden and, when it succeeds, the medium row is gone whoever owns it;
\* without it the call is Forbidden and the tables are unchanged, also for
\* the owner of the medium.
C8_DeleteGate ==
    [][last'.op = "delete_medium"
       => IF may_delete(UserNamed(last'.user))
          THEN /\ last'.res # "Forbidden"
               /\ last'.res = "Ok" => ~\E m \in mediums' : m.id = last'.id
          ELSE /\ last'.res = "Forbidden"
               /\ UNCHANGED Tables]_vars

\* The owner of a medium is refused its deletion.
C8_Witness ==
    /\ last.op = "delete_medium"
    /\ last.res = "Forbidden"
    /\ last.old # None
    /\ last.old[1].created_by = last.user

\* C9: delete_medium is idempotent: by a user who may delete, the delete of
\* an id with no medium row succeeds and leaves the tables unchanged, and
\* after a successful delete a second one succeeds with the same state.
C9_DeleteIdempotent ==
    [][(last'.op = "delete_medium" /\ may_delete(UserNamed(last'.user)))
       => /\ (~\E m \in mediums : m.id = last'.id)
                 => (last'.res = "Ok" /\ UNCHANGED Tables)
          /\ last'.res = "Ok"
                 => delete_medium(Db', last'.id, UserNamed(last'.user)) = {Ok(Db')}]_vars

\* A delete of an id that has no medium row, with other rows stored.
C9_Witness ==
    /\ last.op = "delete_medium"
    /\ last.res = "Ok"
    /\ last.old = None
    /\ mediums # {}

\* C10: after a successful update_medium the stored owner of the medium is
\* the acting user, for a new medium and for one that another user owned;
\* so the owner of every stored medium is the acting user of the last
\* successful update_medium on its id.
C10_OwnerIsActingUser ==
    /\ UpdateDone("Ok") =>
           \A m \in mediums : m.id = last.id => m.created_by = last.user
    /\ \A m \in mediums :
           stored[m.id] # None /\ m.created_by = stored[m.id][1].by

\* ed has replaced the medium that alice owned.
C10_Witness ==
    /\ UpdateDone("Ok")
    /\ last.old # None
    /\ last.old[1].created_by = "alice"
    /\ last.user = "ed"
    /\ \E m \in mediums : m.id = last.id /\ m.created_by = "ed"

\* Both writers called update_medium on m1, passed its check of the user
\* and are done.
BothUpdated ==
    \A w \in Writers :
        /\ txn[w].op = "update_medium"
        /\ txn[w].medium.id = "m1"
        /\ txn[w].pc \in {"committed", "aborted"}
        /\ txn[w].res # "Forbidden"

\* C5: two update_medium calls on one medium id that run at the same time,
\* each in a transaction at read committed, both commit, and the medium
\* stored in the end is the medium of the call that committed last.
C5_BothCommit ==
    BothUpdated =>
        /\ \A w \in Writers : txn[w].pc = "committed"
        /\ LET got == get_medium(Db, "m1")
               winner == history[Len(history)].by
           IN /\ got.ok
              /\ got.val # None
              /\ SameAggregate(got.val[1], txn[winner].medium)

\* C6: a get_medium that runs while the medium is updated or deleted returns
\* no medium or a medium that was committed in full at some point.
C6_NoPartialAggregate ==
    (reader.pc = "done" /\ reader.ret.ok /\ reader.ret.val # None) =>
        \E k \in 1..Len(history) : history[k].val = reader.ret

\* The disc ids that clients ask for.
DiscIds == {"x", ""}

\* C11: get_mediums_for_recording returns, for every recording id, the
\* mediums that have a track set on the recording, each as get_medium
\* returns it and once per such track set, and no other medium.
C11_ForRecording ==
    \A recording_id \in RecordingIds :
        LET got == get_mediums_for_recording(Db, recording_id)
        IN /\ got.ok
           /\ \A id \in MediumIds :
                  /\ Cardinality({s \in DOMAIN got.val : got.val[s].id = id}) =
                         Cardinality({s \in track_sets :
                                          s.medium = id /\ s.recording = recording_id})
                  /\ \A s \in DOMAIN got.val :
                         got.val[s].id = id => get_medium(Db, id) = Val(Some(got.val[s]))

\* C12: get_mediums_by_discid returns, for every query, the mediums whose
\* stored disc id is present and equal to the query, each as get_medium
\* returns it, and never a medium stored without a disc id.
C12_ByDiscId ==
    \A discid \in DiscIds :
        LET got == get_mediums_by_discid(Db, discid)
        IN /\ got.ok
           /\ {row.id : row \in DOMAIN got.val} =
                  {row.id : row \in {r \in mediums : r.discid = Some(discid)}}
           /\ \A row \in DOMAIN got.val :
                  /\ row.discid # None
                  /\ get_medium(Db, row.id) = Val(Some(got.val[row]))

\* The work_parts texts stored for the tracks of a medium.
StoredTexts(id) ==
    {t.work_parts : t \in {t \in tracks :
                               \E s \in track_sets : s.medium = id /\ s.id = t.track_set}}

\* The segments of a text: what stands between two commas, or between a
\* comma and an end of the text, or the whole text when it has no comma.
SegmentsOf(text) ==
    {SubSeq(text, a + 1, b - 1) :
         <<a, b>> \in {p \in (0..Len(text)) \X (1..(Len(text) + 1)) :
                         /\ p[1] < p[2]
                         /\ p[1] = 0 \/ text[p[1]] = ","
                         /\ p[2] = Len(text) + 1 \/ text[p[2]] = ","
                         /\ \A k \in (p[1] + 1)..(p[2] - 1) : text[k] # ","}}

Decimal(segment) ==
    /\ segment # <<>>
    /\ \A k \in 1..Len(segment) : segment[k] \in {DigitChars[d] : d \in 1..10}

SignedDecimal(segment) ==
    \/ Decimal(segment)
    \/ segment # <<>> /\ segment[1] = "+" /\ Decimal(Tail(segment))

Commas(text) == Cardinality({k \in 1..Len(text) : text[k] = ","})

\* C13 as stated: get_medium fails when a track row of the medium has a
\* work_parts text that is empty or has a segment that is not a run of
\* decimal digits.
C13_DigitsOnly ==
    (/\ last.op = "get_medium"
     /\ \E text \in StoredTexts(last.id) : \E segment \in SegmentsOf(text) :
            ~Decimal(segment))
    => ~ret.ok

\* C13: get_medium fails when a track row of the medium has a work_parts
\* text that is empty or has a segment that is not a run of decimal digits
\* with at most a '+' before it; and a medium that it returns has, for each
\* track, one work part for every segment of the text: no segment is
\* dropped and no list is cut short.
C13_DecodeFailure ==
    last.op = "get_medium" =>
        /\ (\E text \in StoredTexts(last.id) : \E segment \in SegmentsOf(text) :
                ~SignedDecimal(segment))
           => ~ret.ok
        /\ (ret.ok /\ ret.val # None) =>
               \A i \in 1..Len(ret.val[1].tracks) :
                   LET rows == load_tracks(Db, load_track_sets(Db, last.id)[i].id)
                   IN /\ Len(ret.val[1].tracks[i].tracks) = Len(rows)
                      /\ \A j \in 1..Len(rows) :
                             Len(ret.val[1].tracks[i].tracks[j].work_parts) =
                                 Commas(rows[j].work_parts) + 1

\* The read of a text whose first segment is a number and whose second is not.
C13_Witness ==
    /\ last.op = "get_medium"
    /\ last.id = "m1"
    /\ ~ret.ok
    /\ \E t \in tracks : t.work_parts = <<"7", ",", "a">>

\* C19: the text that update_medium writes for the work parts of a track is
\* decoded back to the same list, for lists of every length.
C19_EncodingRoundTrip ==
    (UpdateDone("Ok") /\ last.id = "m1") =>
        \A s \in track_sets : \A t \in tracks :
            (s.index = 0 /\ t.track_set = s.id /\ t.index = 0) =>
                decode_work_parts(t.work_parts) =
                    [ok |-> TRUE,
                     val |-> stored["m1"][1].medium.tracks[1].tracks[1].work_parts]

\* C14: in every state that update_medium and delete_medium reach, every
\* track set row refers to a recording that exists, and get_medium on a
\* medium that update_medium wrote does not fail on a missing recording.
C14_RecordingsResolve ==
    /\ \A s \in track_sets : \E r \in recordings : r.id = s.recording
    /\ \A id \in MediumIds :
           stored[id] # None => get_medium(Db, id).err # "ReferentialError"

\* A medium was written with a track set on r2, which no state starts with.
C14_Witness ==
    /\ UpdateDone("Ok")
    /\ \E s \in track_sets : s.medium = last.id /\ s.recording = "r2"
    /\ \E r \in recordings : r.id = "r2" /\ r.created_by = last.user

\* The writers called update_medium on two mediums and are done, and no
\* random row id met a row that is stored.
DifferentMediums ==
    /\ txn["w1"].medium.id # txn["w2"].medium.id
    /\ \A w \in Writers :
           /\ txn[w].op = "update_medium"
           /\ txn[w].pc \in {"committed", "aborted"}
           /\ txn[w].res # "StorageError"

\* C15: update_medium calls on two different medium ids that run at the same
\* time both commit, and both mediums are stored as the calls gave them,
\* also when both refer to one recording that did not exist before.
C15_Independent ==
    DifferentMediums =>
        \A w \in Writers :
            /\ txn[w].pc = "committed"
            /\ LET got == get_medium(Db, txn[w].medium.id)
               IN got.ok /\ got.val # None /\ SameAggregate(got.val[1], txn[w].medium)

\* C16: update_medium adds a recording only when it is absent: every stored
\* recording is left as it is, also when the request gives other data for
\* it; after a successful call every recording of the request exists, and
\* the ones that were added are those of the request, owned by the acting
\* user; so a recording that could not be added fails the whole call.
C16_RecordingOnlyWhenAbsent ==
    [][last'.op = "update_medium"
       => /\ recordings \subseteq recordings'
          /\ last'.res # "Ok" => recordings' = recordings
          /\ last'.res = "Ok" =>
                 LET medium == stored'[last'.id][1].medium
                     asked == {medium.tracks[i].recording : i \in 1..Len(medium.tracks)}
                 IN /\ \A recording \in asked :
                           \E r \in recordings' : r.id = recording.id
                    /\ recordings' \ recordings =
                           {RecordingRow(recording, last'.user) :
                                recording \in {a \in asked :
                                                  ~\E r \in recordings : r.id = a.id}}]_vars

\* alice wrote a medium on r1, which ed owns, with other data for r1 in the
\* request: the stored r1 is as it was.
C16_Witness ==
    /\ UpdateDone("Ok")
    /\ last.user = "alice"
    /\ RecordingRow(Recording("r1", "old"), "ed") \in recordings
    /\ stored[last.id][1].medium.tracks[1].recording = Recording("r1", "new")

\* The index values of rows are 0..n-1 for n rows, so none is there twice.
Dense(rows) == {r.index : r \in rows} = 0..(Cardinality(rows) - 1)

\* C17: in every state the index values of the track sets of a medium, and
\* of the tracks of a track set, are 0..n-1 with none twice; the rows come
\* back in the order of the request whatever ids were drawn, and a medium
\* that get_medium returns has its track sets and tracks in that order.
C17_DensePositions ==
    /\ \A m \in mediums : Dense({s \in track_sets : s.medium = m.id})
    /\ \A s \in track_sets : Dense({t \in tracks : t.track_set = s.id})
    /\ \A id \in MediumIds :
           stored[id] # None =>
               LET medium == stored[id][1].medium
                   sets == load_track_sets(Db, id)
                   got == get_medium(Db, id)
               IN /\ Len(sets) = Len(medium.tracks)
                  /\ \A i \in 1..Len(sets) :
                         LET rows == load_tracks(Db, sets[i].id)
                         IN /\ sets[i].recording = medium.tracks[i].recording.id
                            /\ Len(rows) = Len(medium.tracks[i].tracks)
                            /\ \A j \in 1..Len(rows) :
                                   rows[j].work_parts =
                                       encode_work_parts(medium.tracks[i].tracks[j].work_parts)
                  /\ got.ok => (got.val # None /\ SameAggregate(got.val[1], medium))

\* get_medium returned a medium whose first track set and first track have
\* the larger row ids.
C17_Witness ==
    /\ last.op = "get_medium"
    /\ last.id = "m1"
    /\ stored["m1"] # None
    /\ ret.ok
    /\ \E s \in track_sets : s.index = 0 /\ \E q \in track_sets : q.index = 1 /\ q.id < s.id
    /\ \E t \in tracks : t.index = 0 /\ \E q \in tracks : q.index = 1 /\ q.id < t.id

\* The row ids that the rows of other mediums leave free.
FreeTrackSetIds(id) == RowIds \ {s.id : s \in {s \in track_sets : s.medium # id}}

FreeTrackIds(id) ==
    RowIds \ {t.id : t \in {t \in tracks :
                               \E s \in track_sets : s.id = t.track_set /\ s.medium # id}}

TrackCount(medium) ==
    Cardinality({<<i, j>> \in (1..Len(medium.tracks)) \X RowIds :
                     j <= Len(medium.tracks[i].tracks)})

\* C18: no state holds two track set rows or two track rows with one id;
\* and when the rows of other mediums leave fewer free ids than a request
\* has track sets or tracks, so that a drawn id must meet a stored one, every
\* outcome of update_medium is a failure that leaves the database as it was.
C18_IdCollision ==
    /\ \A a, b \in track_sets : a.id = b.id => a = b
    /\ \A a, b \in tracks : a.id = b.id => a = b
    /\ \A medium \in Requests :
           (\/ Cardinality(FreeTrackSetIds(medium.id)) < Len(medium.tracks)
            \/ Cardinality(FreeTrackIds(medium.id)) < TrackCount(medium))
           => \A user \in Users : \A r \in update_medium(Db, medium, user) :
                  /\ ~r.ok
                  /\ r.err \in {"StorageError", "Forbidden"}
                  /\ r.db = Db

\* An update of m2 failed while the track sets of m1 hold every row id.
C18_Witness ==
    /\ UpdateDone("StorageError")
    /\ last.id = "m2"
    /\ last.user = "alice"
    /\ FreeTrackSetIds("m2") = {}
    /\ mediums # {}

\* A call of check_captcha that has looked the id up.
Checked(c) ==
    /\ client[c].op = "check_captcha"
    /\ client[c].pc \in {"unlock", "idle"}

CommitsUpdate(w) ==
    /\ txn[w].op = "update_medium"
    /\ txn[w].pc = "commit"
    /\ txn'[w].pc = "committed"

\* C21: every update_medium that commits over a stored medium was called by
\* a user who may edit the owner in the medium row that the commit replaces.
C21_NoBypass ==
    [][\A w \in Writers : CommitsUpdate(w) =>
           \A m \in mediums : m.id = txn[w].medium.id =>
               may_edit(txn[w].user, m.created_by)]_vars

====
